---- MODULE Spec2Model ----
(***************************************************************************)
(* Job lifecycle of SMX_DeepLearning/Database-ActiveLearning.             *)
(*                                                                         *)
(* CFD_run_scheduling.py (SimScheduling) is the local Controller: it runs  *)
(* one HPC_run_scheduling.py phase per SSH command and decodes the marker  *)
(* lines of its standard output.  HPC_run_scheduling.py (HPCScheduling)    *)
(* is the remote side: run, monitor, job_restart, vtk_convert, all built   *)
(* on job_wait (qstat) and submit_job (qsub).                              *)
(***************************************************************************)
EXTENDS Integers, Sequences, FiniteSets, TLC

(***************************************************************************)
(* Bounds of the model.                                                    *)
(***************************************************************************)
\* number of qsub submissions the scheduler accepts in one behaviour
MaxJobs == 3
\* lines of one remote standard output handed to search
MaxLines == 3
\* relative-change samples of one averaged signal
MaxSamples == 3
\* rows of the csv log
MaxRows == 3000
\* entries of the remote RESULTS directory
MaxFiles == 2
\* highest checkpoint index the solver writes
MaxIndex == 1
\* lines of the solver's console log
MaxLog == 2

(***************************************************************************)
(* Values on the wire.  A line of the remote standard output is text; what *)
(* matters to the Controller is how the text was formatted:                *)
(*   k = "str"   an arbitrary string s (a marker, a status letter, a tag)  *)
(*   k = "int"   print(<int>)   : decimal digits of n, e.g. "3600"         *)
(*   k = "float" print(<float>) : n followed by ".0",  e.g. "3660.0"       *)
(*   k = "none"  Python None (never a line; the default of dict.get)       *)
(***************************************************************************)
Str(x) == [k |-> "str", s |-> x, n |-> 0]
IntV(x) == [k |-> "int", s |-> "", n |-> x]
FloatV(x) == [k |-> "float", s |-> "", n |-> x]
None == [k |-> "none", s |-> "", n |-> 0]
\* a line of ordinary log text (print('-' * 100), progress messages)
Txt == Str("log text")

M_JOB_IDS == "====JOB_IDS===="
M_WAIT_TIME == "====WAIT_TIME===="
M_JOB_STATUS == "====JOB_STATUS===="
M_RESTART == "====RESTART===="
M_RETURN_BOOL == "====RETURN_BOOL===="
M_EXCEPTION == "====EXCEPTION===="

\* the finite sequences over S of length at most n
SeqsUpTo(S, n) == UNION {[1..m -> S] : m \in 0..n}

(***************************************************************************)
(* SimScheduling.search: the marker table of each search mode.             *)
(***************************************************************************)
\* variant: one marker table for every search mode
markers_one_table(mode) ==
  {M_JOB_IDS, M_WAIT_TIME, M_JOB_STATUS, M_RESTART, M_EXCEPTION}

markers(mode) ==
  CASE mode = 0 -> {M_JOB_IDS, M_WAIT_TIME, M_JOB_STATUS, M_EXCEPTION}
    [] mode = 1 -> {M_WAIT_TIME, M_JOB_STATUS, M_EXCEPTION}
    [] mode = 2 -> {M_JOB_IDS, M_WAIT_TIME, M_JOB_STATUS, M_RESTART, M_EXCEPTION}
    [] OTHER -> {}

\* the result key a marker maps to
markerField(m) ==
  CASE m = M_JOB_IDS -> "jobid"
    [] m = M_WAIT_TIME -> "t_wait"
    [] m = M_JOB_STATUS -> "status"
    [] m = M_RESTART -> "ret_bool"
    [] m = M_EXCEPTION -> "exception"
    [] OTHER -> "?"

\* variant: every ====...==== line counts as a marker
IsMarkerLine_any_sentinel(line, mode) ==
  line.k = "str" /\ line.s \in {M_JOB_IDS, M_WAIT_TIME, M_JOB_STATUS, M_RESTART,
                                 M_RETURN_BOOL, M_EXCEPTION}

IsMarkerLine(line, mode) == line.k = "str" /\ line.s \in markers(mode)

\* search: one linear scan; results[markers[line]] = out_lines[idx + 1],
\* a later occurrence of a marker overwriting an earlier one.  A marker on
\* the last line indexes past the end of the list (IndexError).
search(out_lines, mode) ==
  LET hits == {i \in 1..Len(out_lines) : IsMarkerLine(out_lines[i], mode)}
      of(f) == {i \in hits : markerField(out_lines[i].s) = f}
      last(f) == CHOOSE i \in of(f) : \A j \in of(f) : j <= i
      fields == {markerField(out_lines[i].s) : i \in hits}
  IN IF Len(out_lines) \in hits
       THEN [err |-> "IndexError", res |-> [f \in {} |-> None]]
       ELSE [err |-> "none", res |-> [f \in fields |-> out_lines[last(f) + 1]]]

\* dict.get(key, default)
Get(results, key, default) ==
  IF key \in DOMAIN results THEN results[key] ELSE default

(***************************************************************************)
(* The batch scheduler as the remote side sees it.                         *)
(*   qstat -a <id> : a non-zero return code, or return code 0 with the     *)
(*   last three tokens of the listing  <wall HH:MM> <status> <elapsed>.    *)
(*   Times are minutes; a token strptime('%H:%M') rejects ("25:00", "--")  *)
(*   is a value outside 0..1439.                                           *)
(***************************************************************************)
StatusCodes == {"Q", "H", "R", "E"}
WallTimes == {60, 1500}
ElapTimes == {0, 59, 90}

QstatOutcomes ==
  {[rc |-> 1, st |-> "", wall |-> 0, elap |-> 0]}            \* qstat failed
    \cup {[rc |-> 0, st |-> "", wall |-> 0, elap |-> 0]}     \* no output
    \cup {[rc |-> 0, st |-> s, wall |-> 60, elap |-> 0] : s \in StatusCodes \ {"R"}}
    \cup {[rc |-> 0, st |-> "R", wall |-> w, elap |-> e] : w \in WallTimes, e \in ElapTimes}

NoQstat == [rc |-> 0, st |-> "-", wall |-> 0, elap |-> 0]    \* qstat not run

\* datetime.strptime(token, '%H:%M') accepts 00:00 .. 23:59
TimeOK(m) == m >= 0 /\ m < 1440

QueuedWait == 3600
HeldWait == 1800
RunningSlack == 60

\* job_wait with a Held branch that resubmits without cancelling and hands
\* back the id it was called with
job_wait_held_keeps_id(job_id, q, nid) ==
  LET ret(t, st, id, del, sub) ==
        [exc |-> "none", t_wait |-> t, status |-> Str(st), newjobid |-> id,
         qdel |-> del, subs |-> sub]
      raise(e) ==
        [exc |-> e, t_wait |-> None, status |-> None, newjobid |-> 0,
         qdel |-> {}, subs |-> <<>>]
  IN CASE q.rc # 0 -> raise("JobStatError")
       [] q.st = "" -> raise("IndexError")
       [] q.st = "Q" -> ret(IntV(QueuedWait), "Q", job_id, {}, <<>>)
       [] q.st = "H" -> ret(IntV(HeldWait), "H", job_id, {}, <<"sim">>)
       [] q.st = "R" ->
            IF TimeOK(q.wall) /\ TimeOK(q.elap)
              THEN ret(FloatV((q.wall - q.elap) * 60 + RunningSlack), "R", job_id, {}, <<>>)
              ELSE raise("ValueError")
       [] OTHER -> raise("UnboundLocalError")

\* HPCScheduling.job_wait(job_id).  nid is the id qsub hands out next.
\* exc: the exception job_wait leaves with ("none" when it returns);
\* qdel: the ids it cancels; subs: the launch scripts it submits.
job_wait(job_id, q, nid) ==
  LET ret(t, st, id, del, sub) ==
        [exc |-> "none", t_wait |-> t, status |-> Str(st), newjobid |-> id,
         qdel |-> del, subs |-> sub]
      raise(e) ==
        [exc |-> e, t_wait |-> None, status |-> None, newjobid |-> 0,
         qdel |-> {}, subs |-> <<>>]
  IN CASE q.rc # 0 -> raise("JobStatError")        \* CalledProcessError
       [] q.st = "" -> raise("IndexError")          \* [][1] of an empty list
       [] q.st = "Q" -> ret(IntV(QueuedWait), "Q", job_id, {}, <<>>)
       [] q.st = "H" -> ret(IntV(HeldWait), "H", nid, {job_id}, <<"sim">>)
       [] q.st = "R" ->
            IF TimeOK(q.wall) /\ TimeOK(q.elap)
              THEN ret(FloatV((q.wall - q.elap) * 60 + RunningSlack), "R", job_id, {}, <<>>)
              ELSE raise("ValueError")
       [] OTHER -> raise("UnboundLocalError")      \* newjobid never assigned

\* what one remote phase leaves behind: its standard output, the jobs it
\* cancelled and submitted, and what it meant to report (rep).  rep also
\* keeps what the phase found on the remote file system:
\*   chk        the verdict of check_convergence ("none": not called)
\*   console    whether <run_name>.out existed ("unread": not looked for)
\*   rewritten  <<l>> when line 385 of the launch script was rewritten to l
NoRep == [jobid |-> None, status |-> None, t_wait |-> None, ret_bool |-> None,
          tag |-> None, chk |-> "none", console |-> "unread", rewritten |-> <<>>]

\* the job_wait call a phase made: its argument, what qstat answered and
\* what came back
NoJw == [called |-> FALSE, job_id |-> 0, q |-> NoQstat, exc |-> "none",
         t_wait |-> None, status |-> None, newjobid |-> 0]

JwCall(job_id, q, jw) ==
  [called |-> TRUE, job_id |-> job_id, q |-> q, exc |-> jw.exc,
   t_wait |-> jw.t_wait, status |-> jw.status, newjobid |-> jw.newjobid]

Phase(lines, del, sub, report, call) ==
  [lines |-> lines, qdel |-> del, subs |-> sub, rep |-> report, jw |-> call]

Tagged(tag) == [NoRep EXCEPT !.tag = Str(tag)]

\* the three marker/value pairs printed after a successful job_wait
JobLines(jw) ==
  <<Str(M_JOB_IDS), IntV(jw.newjobid), Str(M_JOB_STATUS), jw.status,
    Str(M_WAIT_TIME), jw.t_wait>>

JobRep(jw) ==
  [NoRep EXCEPT !.jobid = IntV(jw.newjobid), !.status = jw.status,
                !.t_wait = jw.t_wait]

ExcLines(tag) == <<Str(M_EXCEPTION), Str(tag)>>

\* HPCScheduling.run: setjobsh, submit_job, job_wait
run(jobshOk, q, nid) ==
  IF ~jobshOk
    THEN Phase(<<Txt>> \o ExcLines("ValueError"), {}, <<>>, Tagged("ValueError"), NoJw)
    ELSE LET jw == job_wait(nid, q, nid + 1)
             sub == <<"sim">> \o jw.subs
             c == JwCall(nid, q, jw)
         IN CASE jw.exc = "none" ->
                   Phase(<<Txt>> \o JobLines(jw), jw.qdel, sub, JobRep(jw), c)
              [] jw.exc = "JobStatError" ->
                   Phase(<<Txt, Txt>> \o ExcLines("JobStatError"), {}, sub,
                         Tagged("JobStatError"), c)
              [] jw.exc = "ValueError" ->
                   Phase(<<Txt, Txt>> \o ExcLines("ValueError"), {}, sub,
                         Tagged("ValueError"), c)
              [] OTHER -> Phase(<<Txt>>, {}, sub, NoRep, c)   \* uncaught: traceback

Verdicts == {"FNF", "NR", "C", "D"}

(***************************************************************************)
(* HPCScheduling.check_convergence.  The csv log enters as its row count,  *)
(* the two time-step flags np.any() leaves, and the two arrays relchg_div  *)
(* and relchg_ke of relative changes between successive block averages,    *)
(* in thousandths.                                                         *)
(***************************************************************************)
len_to_check == 2000
\* stable_threshold = 0.1
stable_threshold == 100

Abs(x) == IF x < 0 THEN -x ELSE x

\* the for loop over relchg: count up below the threshold, else back to 0
RECURSIVE stable_count(_)
stable_count(relchg) ==
  IF relchg = <<>>
    THEN 0
    ELSE LET rate == relchg[Len(relchg)]
             before == stable_count(SubSeq(relchg, 1, Len(relchg) - 1))
         IN IF Abs(rate) < stable_threshold THEN before + 1 ELSE 0

\* variant: the bar is the full length of the signal
stable_period_all(relchg) == Len(relchg)

\* stable_period = int(len(relchg) * 0.9)
stable_period(relchg) == (Len(relchg) * 9) \div 10

\* variant: 'D' as soon as one of the three checks fails
check_convergence_any(exists, rows, CFL_check, dt_check, relchg_div, relchg_ke) ==
  IF ~exists THEN "FNF"
  ELSE IF rows < len_to_check THEN "NR"
  ELSE LET ts_check == CFL_check \/ dt_check
           div_check == stable_count(relchg_div) < stable_period(relchg_div)
           ke_check == stable_count(relchg_ke) < stable_period(relchg_ke)
       IN IF ts_check \/ div_check \/ ke_check THEN "D" ELSE "C"

\* variant: the row test taken the other way round
check_convergence_upper(exists, rows, CFL_check, dt_check, relchg_div, relchg_ke) ==
  IF ~exists THEN "FNF"
  ELSE IF rows > len_to_check THEN "NR"
  ELSE LET ts_check == CFL_check \/ dt_check
           div_check == stable_count(relchg_div) < stable_period(relchg_div)
           ke_check == stable_count(relchg_ke) < stable_period(relchg_ke)
       IN IF ts_check /\ div_check /\ ke_check THEN "D" ELSE "C"

check_convergence(exists, rows, CFL_check, dt_check, relchg_div, relchg_ke) ==
  IF ~exists THEN "FNF"
  ELSE IF rows < len_to_check THEN "NR"
  ELSE LET ts_check == CFL_check \/ dt_check
           div_check == stable_count(relchg_div) < stable_period(relchg_div)
           ke_check == stable_count(relchg_ke) < stable_period(relchg_ke)
       IN IF ts_check /\ div_check /\ ke_check THEN "D" ELSE "C"

\* variant: on 'D' the tag is printed but the job is left running
monitor_warns_only(jobID, check, q, chk_status, nid) ==
  IF jobID.k # "int"
    THEN Phase(<<>>, {}, <<>>, NoRep, NoJw)                \* int(None): TypeError
    ELSE LET jw == job_wait(jobID.n, q, nid)
             c == JwCall(jobID.n, q, jw)
         IN CASE jw.exc = "none" ->
                   IF q.st = "R" /\ check
                     THEN IF chk_status = "D"
                            THEN Phase(JobLines(jw) \o <<Txt>>
                                         \o ExcLines("ConvergenceError") \o <<Txt>>,
                                       jw.qdel, jw.subs,
                                       [JobRep(jw) EXCEPT !.tag = Str("ConvergenceError"),
                                                          !.chk = chk_status], c)
                            ELSE Phase(JobLines(jw) \o <<Txt>>, jw.qdel, jw.subs,
                                       [JobRep(jw) EXCEPT !.chk = chk_status], c)
                     ELSE Phase(JobLines(jw), jw.qdel, jw.subs, JobRep(jw), c)
              [] jw.exc = "JobStatError" ->
                   Phase(ExcLines("JobStatError"), {}, <<>>, Tagged("JobStatError"), c)
              [] jw.exc = "ValueError" ->
                   Phase(<<Txt>> \o ExcLines("ValueError"), {}, <<>>, Tagged("ValueError"), c)
              [] OTHER -> Phase(<<>>, {}, <<>>, NoRep, c)    \* uncaught: traceback

\* variant: a running job whose log is too short to judge is cancelled too
monitor_cancels_unready(jobID, check, q, chk_status, nid) ==
  IF jobID.k # "int"
    THEN Phase(<<>>, {}, <<>>, NoRep, NoJw)                \* int(None): TypeError
    ELSE LET jw == job_wait(jobID.n, q, nid)
             c == JwCall(jobID.n, q, jw)
         IN CASE jw.exc = "none" ->
                   IF q.st = "R" /\ check
                     THEN IF chk_status = "D"
                            THEN Phase(JobLines(jw) \o <<Txt>>
                                         \o ExcLines("ConvergenceError") \o <<Txt>>,
                                       jw.qdel \cup {jobID.n}, jw.subs,
                                       [JobRep(jw) EXCEPT !.tag = Str("ConvergenceError"),
                                                          !.chk = chk_status], c)
                            ELSE Phase(JobLines(jw) \o <<Txt>>,
                                       IF chk_status = "NR" THEN jw.qdel \cup {jobID.n}
                                                            ELSE jw.qdel, jw.subs,
                                       [JobRep(jw) EXCEPT !.chk = chk_status], c)
                     ELSE Phase(JobLines(jw), jw.qdel, jw.subs, JobRep(jw), c)
              [] jw.exc = "JobStatError" ->
                   Phase(ExcLines("JobStatError"), {}, <<>>, Tagged("JobStatError"), c)
              [] jw.exc = "ValueError" ->
                   Phase(<<Txt>> \o ExcLines("ValueError"), {}, <<>>, Tagged("ValueError"), c)
              [] OTHER -> Phase(<<>>, {}, <<>>, NoRep, c)    \* uncaught: traceback

\* HPCScheduling.monitor: job_wait on mdict['jobID'], then the convergence
\* check when the job runs and checks are enabled.
monitor(jobID, check, q, chk_status, nid) ==
  IF jobID.k # "int"
    THEN Phase(<<>>, {}, <<>>, NoRep, NoJw)                \* int(None): TypeError
    ELSE LET jw == job_wait(jobID.n, q, nid)
             c == JwCall(jobID.n, q, jw)
         IN CASE jw.exc = "none" ->
                   IF q.st = "R" /\ check
                     THEN IF chk_status = "D"
                            THEN Phase(JobLines(jw) \o <<Txt>>
                                         \o ExcLines("ConvergenceError") \o <<Txt>>,
                                       jw.qdel \cup {jobID.n}, jw.subs,
                                       [JobRep(jw) EXCEPT !.tag = Str("ConvergenceError"),
                                                          !.chk = chk_status], c)
                            ELSE Phase(JobLines(jw) \o <<Txt>>, jw.qdel, jw.subs,
                                       [JobRep(jw) EXCEPT !.chk = chk_status], c)
                     ELSE Phase(JobLines(jw), jw.qdel, jw.subs, JobRep(jw), c)
              [] jw.exc = "JobStatError" ->
                   Phase(ExcLines("JobStatError"), {}, <<>>, Tagged("JobStatError"), c)
              [] jw.exc = "ValueError" ->
                   Phase(<<Txt>> \o ExcLines("ValueError"), {}, <<>>, Tagged("ValueError"), c)
              [] OTHER -> Phase(<<>>, {}, <<>>, NoRep, c)    \* uncaught: traceback

CaseTypes == {"geom", "surf"}

\* the snapshot numbers of the VAR_*_*.vtk files in the run directory
VarFileLists == SUBSET {59, 60}

\* t_n = last_vtk * 5e-3 and t_f = 0.3, in milliseconds
t_n(last_vtk) == last_vtk * 5
t_f == 300

\* variant: a geometry case without csv answers False
stop_crit_geom_defaults(case_type, csvExists, below, VAR_file_list) ==
  LET last_vtk == CHOOSE n \in VAR_file_list : \A m \in VAR_file_list : m <= n
      early == t_n(last_vtk) < t_f
  IN IF case_type = "geom"
       THEN IF csvExists THEN (IF below THEN "True" ELSE "False") ELSE "False"
       ELSE IF VAR_file_list = {} THEN "ValueError"
       ELSE IF csvExists
              THEN (IF below /\ early THEN "True" ELSE "False")
              ELSE (IF early THEN "True" ELSE "False")

\* variant: with a csv, either condition keeps a surfactant case running
stop_crit_either(case_type, csvExists, below, VAR_file_list) ==
  LET last_vtk == CHOOSE n \in VAR_file_list : \A m \in VAR_file_list : m <= n
      early == t_n(last_vtk) < t_f
  IN IF case_type = "geom"
       THEN IF csvExists THEN (IF below THEN "True" ELSE "False") ELSE "None"
       ELSE IF VAR_file_list = {} THEN "ValueError"
       ELSE IF csvExists
              THEN (IF below \/ early THEN "True" ELSE "False")
              ELSE (IF early THEN "True" ELSE "False")

\* HPCScheduling.stop_crit: "True" = keep running, "None" = cannot be judged,
\* "ValueError" = max() of an empty list of snapshots.
\* below: last interface position < 90% of the domain length.
stop_crit(case_type, csvExists, below, VAR_file_list) ==
  LET last_vtk == CHOOSE n \in VAR_file_list : \A m \in VAR_file_list : m <= n
      early == t_n(last_vtk) < t_f
  IN IF case_type = "geom"
       THEN IF csvExists THEN (IF below THEN "True" ELSE "False") ELSE "None"
       ELSE IF VAR_file_list = {} THEN "ValueError"
       ELSE IF csvExists
              THEN (IF below /\ early THEN "True" ELSE "False")
              ELSE (IF early THEN "True" ELSE "False")

\* <run_name>.out, the console log of the solver, line by line: whether the
\* line contains 'writing restart file', and the standalone integer it
\* carries (-1: none)
ConsoleLines ==
  {[pat |-> TRUE, num |-> n] : n \in -1..MaxIndex}
    \cup {[pat |-> FALSE, num |-> MaxIndex]}

\* line 385 of job_<run_name>.sh: the restart flag and input_file_index=<n>
RestartLines == [flag : {"FALSE", "TRUE"}, index : 0..MaxIndex]

\* the last 'writing restart file' line of the console log
Patterns == {"absent", "nonumber", "number"}

\* variant: the scan runs forward and stops at the first pattern line
line_with_pattern_first(lines) ==
  LET at == {i \in 1..Len(lines) : lines[i].pat}
      i == CHOOSE j \in at : \A h \in at : j <= h
  IN IF at = {} THEN [pattern |-> "absent", restart_num |-> -1]
     ELSE IF lines[i].num < 0 THEN [pattern |-> "nonumber", restart_num |-> -1]
     ELSE [pattern |-> "number", restart_num |-> lines[i].num]

\* job_restart, lines 596-606: the reversed scan for the pattern line and
\* re.search(r"\b\d+\b") on it
line_with_pattern(lines) ==
  LET at == {i \in 1..Len(lines) : lines[i].pat}
      i == CHOOSE j \in at : \A h \in at : h <= j
  IN IF at = {} THEN [pattern |-> "absent", restart_num |-> -1]
     ELSE IF lines[i].num < 0 THEN [pattern |-> "nonumber", restart_num |-> -1]
     ELSE [pattern |-> "number", restart_num |-> lines[i].num]

\* job_restart, lines 616-624: re.sub('FALSE', 'TRUE', restart_line), then
\* re.sub(r'input_file_index=\d+', 'input_file_index=<restart_num>', ...)
modified_restart(restart_line, restart_num) ==
  [flag |-> IF restart_line.flag = "FALSE" THEN "TRUE" ELSE restart_line.flag,
   index |-> restart_num]

\* variant: a missing console log is reported as a run that reached its end
job_restart_absent_is_stop(outExists, case_type, crit, found, restart_line, q, nid) ==
  CASE ~outExists ->
         Phase(<<Txt, Str(M_RESTART), Str("False")>>, {}, <<>>,
               [NoRep EXCEPT !.ret_bool = Str("False"), !.console = "absent"], NoJw)
    [] outExists /\ case_type = "geom" /\ crit = "None" ->
         Phase(ExcLines("FileNotFoundError") \o <<Txt>>, {}, <<>>,
               [Tagged("FileNotFoundError") EXCEPT !.console = "present"], NoJw)
    [] outExists /\ ~(case_type = "geom" /\ crit = "None") /\ crit = "True" ->
         IF found.pattern # "number"
           THEN Phase(ExcLines("ValueError") \o <<Txt>>, {}, <<>>,
                      [Tagged("ValueError") EXCEPT !.console = "present"], NoJw)
           ELSE LET jw == job_wait(nid, q, nid + 1)
                    sub == <<"sim">> \o jw.subs
                    c == JwCall(nid, q, jw)
                    new == <<modified_restart(restart_line, found.restart_num)>>
                    did(r) == [r EXCEPT !.console = "present", !.rewritten = new]
                IN CASE jw.exc = "none" ->
                          Phase(<<Txt, Txt>> \o JobLines(jw)
                                  \o <<Str(M_RETURN_BOOL), Str("True")>>,
                                jw.qdel, sub,
                                did([JobRep(jw) EXCEPT !.ret_bool = Str("True")]), c)
                     [] jw.exc = "JobStatError" ->
                          Phase(<<Txt, Txt, Txt>> \o ExcLines("JobStatError"), {}, sub,
                                did(Tagged("JobStatError")), c)
                     [] jw.exc = "ValueError" ->
                          Phase(<<Txt, Txt, Txt>> \o ExcLines("ValueError"), {}, sub,
                                did(Tagged("ValueError")), c)
                     [] OTHER -> Phase(<<Txt, Txt>>, {}, sub, did(NoRep), c)
    [] outExists /\ crit = "ValueError" ->                  \* uncaught: traceback
         Phase(<<>>, {}, <<>>, [NoRep EXCEPT !.console = "present"], NoJw)
    [] OTHER ->
         Phase(<<Txt, Txt, Str(M_RETURN_BOOL), Str("False")>>, {}, <<>>,
               [NoRep EXCEPT !.ret_bool = Str("False"), !.console = "present"], NoJw)

\* HPCScheduling.job_restart
job_restart(outExists, case_type, crit, found, restart_line, q, nid) ==
  CASE ~outExists ->
         Phase(ExcLines("FileNotFoundError") \o <<Txt>>, {}, <<>>,
               [Tagged("FileNotFoundError") EXCEPT !.console = "absent"], NoJw)
    [] outExists /\ case_type = "geom" /\ crit = "None" ->
         Phase(ExcLines("FileNotFoundError") \o <<Txt>>, {}, <<>>,
               [Tagged("FileNotFoundError") EXCEPT !.console = "present"], NoJw)
    [] outExists /\ ~(case_type = "geom" /\ crit = "None") /\ crit = "True" ->
         IF found.pattern # "number"
           THEN Phase(ExcLines("ValueError") \o <<Txt>>, {}, <<>>,
                      [Tagged("ValueError") EXCEPT !.console = "present"], NoJw)
           ELSE LET jw == job_wait(nid, q, nid + 1)
                    sub == <<"sim">> \o jw.subs
                    c == JwCall(nid, q, jw)
                    new == <<modified_restart(restart_line, found.restart_num)>>
                    did(r) == [r EXCEPT !.console = "present", !.rewritten = new]
                IN CASE jw.exc = "none" ->
                          Phase(<<Txt, Txt>> \o JobLines(jw)
                                  \o <<Str(M_RETURN_BOOL), Str("True")>>,
                                jw.qdel, sub,
                                did([JobRep(jw) EXCEPT !.ret_bool = Str("True")]), c)
                     [] jw.exc = "JobStatError" ->
                          Phase(<<Txt, Txt, Txt>> \o ExcLines("JobStatError"), {}, sub,
                                did(Tagged("JobStatError")), c)
                     [] jw.exc = "ValueError" ->
                          Phase(<<Txt, Txt, Txt>> \o ExcLines("ValueError"), {}, sub,
                                did(Tagged("ValueError")), c)
                     [] OTHER -> Phase(<<Txt, Txt>>, {}, sub, did(NoRep), c)
    [] outExists /\ crit = "ValueError" ->                  \* uncaught: traceback
         Phase(<<>>, {}, <<>>, [NoRep EXCEPT !.console = "present"], NoJw)
    [] OTHER ->
         Phase(<<Txt, Txt, Str(M_RETURN_BOOL), Str("False")>>, {}, <<>>,
               [NoRep EXCEPT !.ret_bool = Str("False"), !.console = "present"], NoJw)

\* how far vtk_convert gets before it submits the conversion job
ConvertOutcomes == {"crash", "missing", "ok"}

\* HPCScheduling.vtk_convert
vtk_convert(outcome, q, nid) ==
  CASE outcome = "crash" -> Phase(<<Txt>>, {}, <<>>, NoRep, NoJw)
    [] outcome = "missing" ->
         Phase(<<Txt, Txt>> \o ExcLines("FileNotFoundError") \o <<Txt>>, {}, <<>>,
               Tagged("FileNotFoundError"), NoJw)
    [] OTHER ->
         LET jw == job_wait(nid, q, nid + 1)
             sub == <<"convert">> \o jw.subs
             c == JwCall(nid, q, jw)
             head == <<Txt, Txt, Str(M_JOB_IDS), IntV(jw.newjobid),
                       Str(M_JOB_STATUS), jw.status>>
             early == IntV(jw.t_wait.n - 1800)
         IN CASE jw.exc = "none" /\ q.st \in {"Q", "H"} ->
                   Phase(head \o <<Str(M_WAIT_TIME), early>>, jw.qdel, sub,
                         [JobRep(jw) EXCEPT !.t_wait = early], c)
              [] jw.exc = "none" /\ q.st = "R" ->
                   Phase(head \o <<Str(M_WAIT_TIME), jw.t_wait>>, jw.qdel, sub,
                         JobRep(jw), c)
              [] jw.exc = "JobStatError" ->
                   Phase(<<Txt, Txt, Txt>> \o ExcLines("JobStatError"), {}, sub,
                         Tagged("JobStatError"), c)
              [] jw.exc = "ValueError" ->
                   Phase(<<Txt, Txt, Txt>> \o ExcLines("ValueError"), {}, sub,
                         Tagged("ValueError"), c)
              [] OTHER -> Phase(<<Txt, Txt>>, {}, sub, NoRep, c)

(***************************************************************************)
(* SimScheduling.execute_remote_command                                    *)
(***************************************************************************)
\* where the SSH layer fails: ssh.connect (authentication or connection),
\* ssh.exec_command, or the iteration over stdout
TransportFailures == {"none", "connect_auth", "connect_ssh", "exec_ssh", "read_ssh"}

\* the remote command has run when the failure, if any, came after exec_command
RemoteRan(tf) == tf \in {"none", "read_ssh"}

\* int(x) of a decoded value line: only decimal digits parse
IntParses(v) == v.k = "int"

\* the error raised for a decoded exception tag
TagError(exc) ==
  CASE exc.s = "RuntimeError" -> "RuntimeError"
    [] exc.s = "ValueError" -> "ValueError"
    [] OTHER -> "NameError"

\* the finally block: stdin.close(), stdout.close(), stderr.close(),
\* ssh.close().  stdin is bound only once exec_command has returned; before
\* that stdin.close() raises UnboundLocalError, which replaces the pending
\* exception and skips ssh.close().
FinallyCloses(tf) == tf \notin {"connect_auth", "connect_ssh", "exec_ssh"}

\* variant: the decoded exception tag is dropped and the tuple returned
execute_remote_command_drops_tag(out_lines, mode, tf) ==
  LET fail(e, o) == [raised |-> e, jobid |-> None, t_wait |-> 0, status |-> None,
                     ret_bool |-> None, open |-> o]
      found == search(out_lines, mode)
      results == found.res
      tw == Get(results, "t_wait", IntV(0))
      exc == Get(results, "exception", None)
  IN CASE tf \in {"connect_auth", "connect_ssh"} ->
            fail(IF FinallyCloses(tf)
                   THEN (IF tf = "connect_auth" THEN "AuthenticationException"
                                                ELSE "SSHException")
                   ELSE "UnboundLocalError", FALSE)
       [] tf = "exec_ssh" ->
            fail(IF FinallyCloses(tf) THEN "SSHException" ELSE "UnboundLocalError",
                 ~FinallyCloses(tf))
       [] tf = "read_ssh" -> fail("SSHException", ~FinallyCloses(tf))
       [] OTHER ->
            CASE found.err # "none" -> fail(found.err, FALSE)
              [] found.err = "none" /\ ~IntParses(tw) -> fail("ValueError", FALSE)
              [] OTHER ->
                   [raised |-> "none",
                    jobid |-> Get(results, "jobid", None),
                    t_wait |-> tw.n,
                    status |-> Get(results, "status", None),
                    ret_bool |-> Get(results, "ret_bool", None),
                    open |-> FALSE]

\* raised: the exception the call leaves with ("none": it returns the tuple);
\* open: the session is connected and was not closed.
execute_remote_command(out_lines, mode, tf) ==
  LET fail(e, o) == [raised |-> e, jobid |-> None, t_wait |-> 0, status |-> None,
                     ret_bool |-> None, open |-> o]
      found == search(out_lines, mode)
      results == found.res
      tw == Get(results, "t_wait", IntV(0))
      exc == Get(results, "exception", None)
  IN CASE tf \in {"connect_auth", "connect_ssh"} ->
            fail(IF FinallyCloses(tf)
                   THEN (IF tf = "connect_auth" THEN "AuthenticationException"
                                                ELSE "SSHException")
                   ELSE "UnboundLocalError", FALSE)
       [] tf = "exec_ssh" ->
            fail(IF FinallyCloses(tf) THEN "SSHException" ELSE "UnboundLocalError",
                 ~FinallyCloses(tf))
       [] tf = "read_ssh" -> fail("SSHException", ~FinallyCloses(tf))
       [] OTHER ->
            CASE found.err # "none" -> fail(found.err, FALSE)
              [] found.err = "none" /\ ~IntParses(tw) -> fail("ValueError", FALSE)
              [] found.err = "none" /\ IntParses(tw) /\ exc # None ->
                   fail(TagError(exc), FALSE)
              [] OTHER ->
                   [raised |-> "none",
                    jobid |-> Get(results, "jobid", None),
                    t_wait |-> tw.n,
                    status |-> Get(results, "status", None),
                    ret_bool |-> Get(results, "ret_bool", None),
                    open |-> FALSE]

(***************************************************************************)
(* SimScheduling.scp_download                                              *)
(***************************************************************************)
\* st_mode of a directory entry: the file type in bits 12-15, the
\* permissions below (0o644)
S_IFIFO == 4096
S_IFCHR == 8192
S_IFDIR == 16384
S_IFBLK == 24576
S_IFREG == 32768
S_IFLNK == 40960
S_IFSOCK == 49152
StModes ==
  {t + 420 : t \in {S_IFIFO, S_IFCHR, S_IFDIR, S_IFBLK, S_IFREG, S_IFLNK, S_IFSOCK}}

\* sftp.listdir_attr(remote_path): remote_files[i] is the st_mode of the i-th
\* entry of RESULTS
RemoteListings == SeqsUpTo(StModes, MaxFiles)

\* where scp_download fails: ssh.connect, or listdir_attr on a RESULTS
\* directory that does not exist
ScpFailures == {"none", "connect_auth", "connect_ssh", "listdir"}

\* the local directory does not exist
NoSaved == [exists |-> FALSE, files |-> {}]

\* file_attr.st_mode & 0o100000, for st_mode < 2^16
AndRegBit(st_mode) == ((st_mode \div 32768) % 2) * 32768

\* os.mkdir in try/except: pass, then sftp.get for every entry that passes
\* the mode test.  saved.files are the entries sftp.get was called on.
scp_download(dir, remote_files, tf) ==
  LET made == [dir EXCEPT !.exists = TRUE]
  IN CASE tf = "connect_auth" -> [raised |-> "AuthenticationException", saved |-> made]
       [] tf = "connect_ssh" -> [raised |-> "SSHException", saved |-> made]
       [] tf = "listdir" -> [raised |-> "FileNotFoundError", saved |-> made]
       [] OTHER ->
            [raised |-> "none",
             saved |-> [made EXCEPT !.files =
                          @ \cup {i \in 1..Len(remote_files) :
                                    AndRegBit(remote_files[i]) # 0}]]

\* Python's exception hierarchy, as far as the except clauses see it
IsA(e, cls) ==
  \/ e = cls
  \/ cls = "NameError" /\ e = "UnboundLocalError"
  \/ cls = "SSHException" /\ e = "AuthenticationException"

\* eval(ret_bool) in localrun: None is not evaluable (TypeError); "True" and
\* "False" are the literals; a number is itself; any other string raises.
EvalOK(v) == v.k \in {"int", "float"} \/ (v.k = "str" /\ v.s \in {"True", "False"})
EvalTruth(v) == IF v.k = "str" THEN v.s = "True" ELSE v.n # 0
EvalError(v) == IF v.k = "none" THEN "TypeError" ELSE "NameError"

(***************************************************************************)
(* State.                                                                  *)
(***************************************************************************)
VARIABLES
  pset,       \* pset_dict: [case, check], fixed for the run
  pc,         \* where localrun stands
  jobid,      \* localrun: jobid
  t_wait,     \* localrun: t_wait
  status,     \* localrun: status
  restart,    \* localrun: restart
  job,        \* jobmonitor: the job label, "run" or "Convert"
  mjob,       \* jobmonitor: mdict['jobID'] inside mdict_str
  m_t_wait,   \* jobmonitor: t_wait
  m_status,   \* jobmonitor: status
  slept,      \* the duration of the last sleep() of jobmonitor
  unhandled,  \* the exception that ended the process, "none" otherwise
  ssh_open,   \* an SSH session was left connected by a finished command
  jobs,       \* scheduler: jobs[i] is the launch script of job id i
  cancelled,  \* scheduler: the ids qdel was called on
  reported,   \* the job id the remote side printed last
  last,       \* the last remote command: what was sent, what came back
  script,     \* remote: line 385 of job_<run_name>.sh, the restart line
  saved,      \* local: the directory save_path/<run_name> and what was copied
  fn          \* a function under study on its own: its inputs and its result

\* the state of one run of localrun and of the remote side it drives
ctl == <<pset, pc, jobid, t_wait, status, restart, job, mjob, m_t_wait,
         m_status, slept, unhandled, ssh_open, jobs, cancelled, reported, last,
         script, saved>>

vars == <<ctl, fn>>

SafetyMargin == 1770

NoPhase == Phase(<<>>, {}, <<>>, NoRep, NoJw)

\* the remote phase runs only when the session got as far as exec_command
Ran(tf, phases) == IF RemoteRan(tf) THEN phases ELSE {NoPhase}

NoCommand ==
  [cmd |-> "none", arg |-> None, tf |-> "none", ran |-> FALSE, rep |-> NoRep,
   jw |-> NoJw, raised |-> "none", out |-> <<>>, qdel |-> {}]

\* the console logs the solver may have written
ConsoleLogs == SeqsUpTo(ConsoleLines, MaxLog)

\* what job_restart may find in the console log
RestartFinds == {line_with_pattern(lines) : lines \in ConsoleLogs}

\* no function is under study
NoCall == [op |-> "none"]

\* localrun has not issued its first command
ControllerStart ==
  /\ pc = "submit"
  /\ jobid = None
  /\ t_wait = 0
  /\ status = None
  /\ restart = TRUE
  /\ job = "run"
  /\ mjob = None
  /\ m_t_wait = 0
  /\ m_status = None
  /\ slept = 0
  /\ unhandled = "none"
  /\ ssh_open = FALSE
  /\ jobs = <<>>
  /\ cancelled = {}
  /\ reported = None
  /\ last = NoCommand

Init ==
  /\ pset \in [case : CaseTypes, check : BOOLEAN]
  /\ ControllerStart
  /\ script \in RestartLines
  /\ saved = NoSaved
  /\ fn = NoCall

\* One command through execute_remote_command: the remote phase ph ran (or
\* not, when the session failed first) and the call came back with r.
Command(cmd, arg, tf, ph, r) ==
  /\ Len(jobs) + Len(ph.subs) <= MaxJobs
  /\ jobs' = jobs \o ph.subs
  /\ cancelled' = cancelled \cup ph.qdel
  /\ reported' = IF ph.rep.jobid # None THEN ph.rep.jobid ELSE reported
  /\ ssh_open' = (ssh_open \/ r.open)
  /\ script' = IF ph.rep.rewritten # <<>> THEN ph.rep.rewritten[1] ELSE script
  /\ last' = [cmd |-> cmd, arg |-> arg, tf |-> tf,
              ran |-> RemoteRan(tf), rep |-> ph.rep, jw |-> ph.jw,
              raised |-> r.raised, out |-> ph.lines, qdel |-> ph.qdel]

\* sys.exit(1) of the paramiko handlers, or an exception no handler takes
Abort(e) ==
  IF IsA(e, "SSHException")
    THEN pc' = "exit1" /\ unhandled' = unhandled
    ELSE pc' = "crashed" /\ unhandled' = e

\* localrun calls jobmonitor(mdict_str, t_wait, status, job, ...)
EnterMonitor(label, id, t, st) ==
  /\ pc' = "jobmonitor"
  /\ job' = label
  /\ mjob' = id
  /\ m_t_wait' = t
  /\ m_status' = st
  /\ slept' = slept

AfterMonitor == IF job = "run" THEN "job_restart" ELSE "scp_download"

\* localrun, lines 86-114: the run command, then the first jobmonitor call
Submit ==
  /\ pc = "submit"
  /\ \E tf \in TransportFailures :
     \E ph \in Ran(tf, {run(jobshOk, q, Len(jobs) + 1) :
                          jobshOk \in BOOLEAN, q \in QstatOutcomes}) :
       LET r == execute_remote_command(ph.lines, 0, tf)
       IN /\ Command("run", None, tf, ph, r)
          /\ IF r.raised = "none"
               THEN /\ jobid' = r.jobid
                    /\ t_wait' = r.t_wait
                    /\ status' = r.status
                    /\ EnterMonitor("run", r.jobid, r.t_wait, r.status)
                    /\ UNCHANGED unhandled
               ELSE /\ Abort(r.raised)
                    /\ UNCHANGED <<jobid, t_wait, status, job, mjob, m_t_wait,
                                   m_status, slept>>
  /\ UNCHANGED <<pset, restart, saved, fn>>

\* jobmonitor, lines 202-207: t_wait > 0, sleep(t_wait - 1770).  sleep stands
\* outside the try block; a negative duration raises ValueError.
JobmonitorSleep ==
  /\ pc = "jobmonitor"
  /\ m_t_wait > 0
  /\ IF m_t_wait - SafetyMargin >= 0
       THEN pc' = "poll" /\ slept' = m_t_wait - SafetyMargin /\ UNCHANGED unhandled
       ELSE pc' = "crashed" /\ unhandled' = "ValueError" /\ UNCHANGED slept
  /\ UNCHANGED <<pset, jobid, t_wait, status, restart, job, mjob, m_t_wait,
                 m_status, ssh_open, jobs, cancelled, reported, last, script,
                 saved, fn>>

\* jobmonitor, lines 235-236: running = False, the call returns
JobmonitorReturn ==
  /\ pc = "jobmonitor"
  /\ m_t_wait <= 0
  /\ pc' = AfterMonitor
  /\ UNCHANGED <<pset, jobid, t_wait, status, restart, job, mjob, m_t_wait,
                 m_status, slept, unhandled, ssh_open, jobs, cancelled,
                 reported, last, script, saved, fn>>

\* jobmonitor, lines 208-234: the monitor command and its handlers
JobmonitorPoll ==
  /\ pc = "poll"
  /\ \E tf \in TransportFailures :
     \E ph \in Ran(tf, {monitor(mjob, pset.check, q, chk_status, Len(jobs) + 1) :
                          q \in QstatOutcomes, chk_status \in Verdicts}) :
       LET r == execute_remote_command(ph.lines, 1, tf)
       IN /\ Command("monitor", mjob, tf, ph, r)
          /\ CASE r.raised = "none" ->
                    /\ m_t_wait' = r.t_wait
                    /\ m_status' = r.status
                    /\ pc' = "jobmonitor"
                    /\ UNCHANGED unhandled
               [] IsA(r.raised, "RuntimeError") ->
                    /\ m_t_wait' = 0
                    /\ m_status' = Str("F")
                    /\ pc' = AfterMonitor
                    /\ UNCHANGED unhandled
               [] IsA(r.raised, "ValueError") \/ IsA(r.raised, "NameError") ->
                    /\ pc' = "jobmonitor"
                    /\ UNCHANGED <<m_t_wait, m_status, unhandled>>
               [] OTHER ->
                    /\ Abort(r.raised)
                    /\ UNCHANGED <<m_t_wait, m_status>>
  /\ UNCHANGED <<pset, jobid, t_wait, status, restart, job, mjob, slept, saved,
                 fn>>

\* localrun, lines 122-143: the job_restart command, restart = eval(ret_bool),
\* then `while restart` either calls jobmonitor again or falls through
Restart ==
  /\ pc = "job_restart"
  /\ \E tf \in TransportFailures :
     \E ph \in Ran(tf, {job_restart(outExists, pset.case,
                                      stop_crit(pset.case, csvExists, below, files),
                                      found, script, q, Len(jobs) + 1) :
                          outExists \in BOOLEAN, csvExists \in BOOLEAN,
                          below \in BOOLEAN, files \in VarFileLists,
                          found \in RestartFinds, q \in QstatOutcomes}) :
       LET r == execute_remote_command(ph.lines, 2, tf)
       IN /\ Command("job_restart", None, tf, ph, r)
          /\ CASE r.raised = "none" /\ EvalOK(r.ret_bool) ->
                    /\ jobid' = r.jobid
                    /\ t_wait' = r.t_wait
                    /\ status' = r.status
                    /\ restart' = EvalTruth(r.ret_bool)
                    /\ IF EvalTruth(r.ret_bool)
                         THEN EnterMonitor("run", r.jobid, r.t_wait, r.status)
                         ELSE /\ pc' = "vtk_convert"
                              /\ UNCHANGED <<job, mjob, m_t_wait, m_status, slept>>
                    /\ UNCHANGED unhandled
               [] r.raised = "none" /\ ~EvalOK(r.ret_bool) ->
                    /\ jobid' = r.jobid
                    /\ t_wait' = r.t_wait
                    /\ status' = r.status
                    /\ Abort(EvalError(r.ret_bool))
                    /\ UNCHANGED <<restart, job, mjob, m_t_wait, m_status, slept>>
               [] IsA(r.raised, "ValueError") ->
                    /\ EnterMonitor("run", jobid, t_wait, status)
                    /\ UNCHANGED <<jobid, t_wait, status, restart, unhandled>>
               [] OTHER ->
                    /\ Abort(r.raised)
                    /\ UNCHANGED <<jobid, t_wait, status, restart, job, mjob,
                                   m_t_wait, m_status, slept>>
  /\ UNCHANGED <<pset, saved, fn>>

\* localrun, lines 151-177: the vtk_convert command, then jobmonitor on the
\* conversion job
Convert ==
  /\ pc = "vtk_convert"
  /\ \E tf \in TransportFailures :
     \E ph \in Ran(tf, {vtk_convert(outcome, q, Len(jobs) + 1) :
                          outcome \in ConvertOutcomes, q \in QstatOutcomes}) :
       LET r == execute_remote_command(ph.lines, 0, tf)
       IN /\ Command("vtk_convert", None, tf, ph, r)
          /\ IF r.raised = "none"
               THEN /\ EnterMonitor("Convert", r.jobid, r.t_wait, r.status)
                    /\ UNCHANGED unhandled
               ELSE /\ Abort(r.raised)
                    /\ UNCHANGED <<job, mjob, m_t_wait, m_status, slept>>
  /\ UNCHANGED <<pset, jobid, t_wait, status, restart, saved, fn>>

\* localrun, lines 185-196: scp_download, then return {}
Download ==
  /\ pc = "scp_download"
  /\ \E tf \in ScpFailures, remote_files \in RemoteListings :
       LET r == scp_download(saved, remote_files, tf)
       IN /\ saved' = r.saved
          /\ IF r.raised = "none"
               THEN pc' = "returned" /\ UNCHANGED unhandled
               ELSE Abort(r.raised)
  /\ UNCHANGED <<pset, jobid, t_wait, status, restart, job, mjob, m_t_wait,
                 m_status, slept, ssh_open, jobs, cancelled, reported, last,
                 script, fn>>

\* The run of localrun.  No behaviour leaves the `while restart` loop by its
\* condition: job_restart prints ====RETURN_BOOL==== where search(2) looks for
\* ====RESTART====, so ret_bool is None and eval(ret_bool) raises.  Convert
\* and Download (lines 145-196) are never enabled from Init and are not
\* disjuncts of Next.
Next ==
  \/ Submit
  \/ JobmonitorSleep
  \/ JobmonitorReturn
  \/ JobmonitorPoll
  \/ Restart

Spec == Init /\ [][Next]_vars

(***************************************************************************)
(* The finalize phase of localrun on its own (lines 145-196): the state is *)
(* the one the restart loop would leave after a job_restart output decoded *)
(* as stop, which carries no job id, wait time or status.                  *)
(***************************************************************************)
FinalizeInit ==
  /\ pset \in [case : CaseTypes, check : BOOLEAN]
  /\ pc = "vtk_convert"
  /\ jobid = None
  /\ t_wait = 0
  /\ status = None
  /\ restart = FALSE
  /\ job = "run"
  /\ mjob = IntV(1)
  /\ m_t_wait = 0
  /\ m_status = Str("Q")
  /\ slept = 0
  /\ unhandled = "none"
  /\ ssh_open = FALSE
  /\ jobs = <<"sim">>
  /\ cancelled = {}
  /\ reported = IntV(1)
  /\ last = NoCommand
  /\ script = [flag |-> "FALSE", index |-> 0]
  /\ saved \in {NoSaved, [NoSaved EXCEPT !.exists = TRUE]}
  /\ fn = NoCall

FinalizeNext ==
  \/ Convert
  \/ JobmonitorSleep
  \/ JobmonitorReturn
  \/ JobmonitorPoll
  \/ Download

FinalizeSpec == FinalizeInit /\ [][FinalizeNext]_vars

(***************************************************************************)
(* SimScheduling.search on its own: every output of at most MaxLines lines *)
(* over SearchLines, in every search mode.                                 *)
(***************************************************************************)
\* localrun stands idle while a function is studied on its own
Idle ==
  /\ pset = [case |-> "geom", check |-> TRUE]
  /\ ControllerStart
  /\ script = [flag |-> "FALSE", index |-> 0]
  /\ saved = NoSaved

\* the six sentinel lines the remote side prints, a line of log text and two
\* value lines
SearchLines ==
  {Str(M_JOB_IDS), Str(M_WAIT_TIME), Str(M_JOB_STATUS), Str(M_RESTART),
   Str(M_RETURN_BOOL), Str(M_EXCEPTION), Txt, IntV(3600), Str("True")}

SearchInit ==
  /\ Idle
  /\ fn \in [op : {"search"}, out_lines : SeqsUpTo(SearchLines, MaxLines),
              mode : 0..2, done : {FALSE}, results : {[err |-> "none", res |-> <<>>]}]

\* results = self.search(out_lines, search)
SearchCall ==
  /\ fn.op = "search"
  /\ ~fn.done
  /\ fn' = [fn EXCEPT !.done = TRUE, !.results = search(fn.out_lines, fn.mode)]
  /\ UNCHANGED ctl

SearchNext == SearchCall

SearchSpec == SearchInit /\ [][SearchNext]_vars

(***************************************************************************)
(* SimScheduling.execute_remote_command on its own, lines 252-262: the     *)
(* lines of the remote standard output as they arrive, the run's log and   *)
(* the decoded result.                                                     *)
(***************************************************************************)
\* a line of stdout: the blanks it starts with and its text up to the line end
StdoutLines ==
  [indent : {0, 4},
   text : {Str(M_WAIT_TIME), Str(M_EXCEPTION), IntV(3600), Txt}]

\* stripped_line = line.strip(): the blanks in front and the line end are gone
strip(line) == line.text

\* what log.info received and what out_lines holds, one entry per line read
Logged(line) == [indent |-> 0, text |-> strip(line)]

ExecInit ==
  /\ Idle
  /\ fn \in [op : {"execute_remote_command"},
              stdout : SeqsUpTo(StdoutLines, MaxLines), mode : {0, 2},
              done : {FALSE}, tf : {"none"}, log : {<<>>}, raised : {"none"},
              t_wait : {0}]

\* one call: the for loop over stdout logs and collects the stripped lines,
\* a transport failure while reading ends it after any number of lines; then
\* the decoding
ExecCall ==
  /\ fn.op = "execute_remote_command"
  /\ ~fn.done
  /\ \E tf \in TransportFailures :
     \E read \in 0..Len(fn.stdout) :
       LET out_lines == [i \in 1..Len(fn.stdout) |-> strip(fn.stdout[i])]
           r == execute_remote_command(out_lines, fn.mode, tf)
       IN /\ read = CASE tf = "none" -> Len(fn.stdout)
                      [] tf = "read_ssh" -> read
                      [] OTHER -> 0
          /\ fn' = [fn EXCEPT !.done = TRUE, !.tf = tf,
                              !.log = [i \in 1..read |-> Logged(fn.stdout[i])],
                              !.raised = r.raised,
                              !.t_wait = r.t_wait]
  /\ UNCHANGED ctl

ExecNext == ExecCall

ExecSpec == ExecInit /\ [][ExecNext]_vars

(***************************************************************************)
(* SimScheduling.scp_download on its own: every listing of at most         *)
(* MaxFiles entries of the remote RESULTS directory, with the local        *)
(* directory there or not.                                                 *)
(***************************************************************************)
ScpInit ==
  /\ Idle
  /\ fn \in [op : {"scp_download"},
              dir : {NoSaved, [NoSaved EXCEPT !.exists = TRUE]},
              remote_files : RemoteListings, done : {FALSE}, tf : {"none"},
              raised : {"none"}, copied : {{}}]

\* self.scp_download(log); copied: the entries sftp.get was called for
ScpCall ==
  /\ fn.op = "scp_download"
  /\ ~fn.done
  /\ \E tf \in ScpFailures :
       LET r == scp_download(fn.dir, fn.remote_files, tf)
       IN fn' = [fn EXCEPT !.done = TRUE, !.tf = tf, !.raised = r.raised,
                           !.copied = r.saved.files]
  /\ UNCHANGED ctl

ScpNext == ScpCall

ScpSpec == ScpInit /\ [][ScpNext]_vars

(***************************************************************************)
(* HPCScheduling.check_convergence on its own, against a csv log the       *)
(* solver creates and appends to between calls.                            *)
(***************************************************************************)
\* relative changes in thousandths: -100 is at the threshold, 50 below it
Rates == {-100, 50}

\* rows the solver appends between two calls
RowStep == 1000

\* the csv log before the first call: absent, or present with rows in it
ConvLogs ==
  {l \in [exists : BOOLEAN, rows : {0, 1999, 2000}, CFL_check : BOOLEAN,
          dt_check : BOOLEAN, relchg_div : SeqsUpTo(Rates, MaxSamples),
          relchg_ke : SeqsUpTo(Rates, MaxSamples)] :
     IF l.exists
       THEN l.rows > 0
       ELSE /\ l.rows = 0 /\ ~l.CFL_check /\ ~l.dt_check
            /\ l.relchg_div = <<>> /\ l.relchg_ke = <<>>}

\* chk_status: what the last call on the present log returned ("none": not
\* called since the log changed); judged_at: the rows the log had when a call
\* first returned 'C' or 'D' (-1: no call has); stable_count_div and
\* stable_count_ke: the two counters when the last call returned (-1: the
\* call did not get to the loops)
ConvInit ==
  /\ Idle
  /\ \E l \in ConvLogs :
       fn = [op |-> "check_convergence", log |-> l, chk_status |-> "none",
             judged_at |-> -1, stable_count_div |-> -1, stable_count_ke |-> -1]

\* chk_status = self.check_convergence()
ConvCheck ==
  /\ fn.op = "check_convergence"
  /\ LET l == fn.log
         v == check_convergence(l.exists, l.rows, l.CFL_check, l.dt_check,
                                l.relchg_div, l.relchg_ke)
     IN fn' = [fn EXCEPT !.chk_status = v,
                         !.judged_at = IF @ < 0 /\ v \in {"C", "D"}
                                         THEN l.rows ELSE @,
                         !.stable_count_div = IF v \in {"C", "D"}
                                                THEN stable_count(l.relchg_div)
                                                ELSE -1,
                         !.stable_count_ke = IF v \in {"C", "D"}
                                               THEN stable_count(l.relchg_ke)
                                               ELSE -1]
  /\ UNCHANGED ctl

\* the newest block average enters the recent half, the oldest leaves it
Slide(relchg, rate) ==
  IF Len(relchg) < MaxSamples THEN Append(relchg, rate)
                              ELSE Append(Tail(relchg), rate)

\* the solver writes the first line of the csv
ConvCreate ==
  /\ fn.op = "check_convergence"
  /\ ~fn.log.exists
  /\ fn' = [fn EXCEPT !.log.exists = TRUE, !.chk_status = "none",
                      !.stable_count_div = -1, !.stable_count_ke = -1]
  /\ UNCHANGED ctl

\* the solver appends rows; np.any over the whole series can only turn true
ConvAppend ==
  /\ fn.op = "check_convergence"
  /\ fn.log.exists
  /\ fn.log.rows + RowStep <= MaxRows
  /\ \E cfl \in BOOLEAN, dt \in BOOLEAN, d \in Rates, ke \in Rates :
       fn' = [fn EXCEPT !.log.rows = @ + RowStep,
                        !.log.CFL_check = @ \/ cfl,
                        !.log.dt_check = @ \/ dt,
                        !.log.relchg_div = Slide(@, d),
                        !.log.relchg_ke = Slide(@, ke),
                        !.chk_status = "none",
                        !.stable_count_div = -1,
                        !.stable_count_ke = -1]
  /\ UNCHANGED ctl

ConvNext == ConvCheck \/ ConvCreate \/ ConvAppend

ConvSpec == ConvInit /\ [][ConvNext]_vars

(***************************************************************************)
(* HPCScheduling.job_restart on its own: every console log of at most      *)
(* MaxLog lines, every restart line, every answer of the stopping          *)
(* criterion.                                                              *)
(***************************************************************************)
\* out_file: the console log; csvExists, below, VAR_file_list: what
\* stop_crit finds; restart_line: line 385 of the launch script before the
\* call; lines384: the same line after it; crit: what stop_crit answered
\* ("uncalled": it was not called); subs: the scripts handed to qsub
RestartInit ==
  /\ Idle
  /\ \E l \in RestartLines :
       fn \in [op : {"job_restart"}, outExists : BOOLEAN, case : CaseTypes,
               csvExists : BOOLEAN, below : BOOLEAN,
               VAR_file_list : VarFileLists, crit : {"uncalled"},
               out_file : ConsoleLogs, restart_line : {l},
               lines384 : {l}, done : {FALSE}, out : {<<>>}, subs : {<<>>}]

\* one run of the job_restart phase on the remote side
RestartCall ==
  /\ fn.op = "job_restart"
  /\ ~fn.done
  /\ \E q \in QstatOutcomes :
       LET found == IF fn.outExists THEN line_with_pattern(fn.out_file)
                                    ELSE [pattern |-> "absent", restart_num |-> -1]
           crit == stop_crit(fn.case, fn.csvExists, fn.below, fn.VAR_file_list)
           ph == job_restart(fn.outExists, fn.case, crit, found,
                             fn.restart_line, q, 1)
       IN fn' = [fn EXCEPT !.done = TRUE,
                           !.crit = IF fn.outExists THEN crit ELSE "uncalled",
                           !.out = ph.lines,
                           !.subs = ph.subs,
                           !.lines384 = IF ph.rep.rewritten # <<>>
                                          THEN ph.rep.rewritten[1] ELSE @]
  /\ UNCHANGED ctl

RestartNext == RestartCall

RestartSpec == RestartInit /\ [][RestartNext]_vars

(***************************************************************************)
(* Properties.  `last` is the most recent command: last.jw is the job_wait *)
(* call the remote phase made (with qstat's answer last.jw.q), last.rep    *)
(* what the phase meant to report and found, last.out its standard output, *)
(* last.qdel the ids it cancelled, last.raised what execute_remote_command *)
(* raised.                                                                 *)
(***************************************************************************)
\* the last command ran remotely and its output arrived
Delivered == last.ran /\ last.tf = "none"

\* C1: when qstat for the monitored job fails (the job finished or was
\* removed), jobmonitor ends with t_wait = 0 and status 'F' and does not poll
\* again.
C1_QueryFailureEndsMonitoring ==
  (/\ last.cmd = "monitor"
   /\ Delivered
   /\ last.jw.called
   /\ last.jw.q.rc # 0)
    => (m_t_wait = 0 /\ m_status = Str("F") /\ pc \notin {"jobmonitor", "poll"})

\* C2: for every wait time w > 0 a remote phase reports, the next sleep of
\* jobmonitor lasts w - 1770 seconds, which is a valid duration below w, and
\* the monitor command follows the sleep.
C2_SleepIsReportedWaitMinusMargin ==
  [][/\ (/\ pc = "jobmonitor"
         /\ last.cmd \in {"run", "monitor"}
         /\ Delivered
         /\ last.rep.tag = None
         /\ last.rep.t_wait # None
         /\ last.rep.t_wait.n > 0)
          => (/\ pc' = "poll"
              /\ slept' = last.rep.t_wait.n - 1770
              /\ slept' >= 0
              /\ slept' < last.rep.t_wait.n)
     /\ pc = "poll" => last'.cmd = "monitor"]_vars

\* C3: after a job_restart command that printed no exception tag, restart
\* equals the boolean the remote side reported, and on True the Controller
\* monitors the job id reported with it.
C3_RestartEqualsReportedBool ==
  (/\ last.cmd = "job_restart"
   /\ Delivered
   /\ last.rep.tag = None
   /\ last.rep.ret_bool # None)
    => (/\ restart = (last.rep.ret_bool = Str("True"))
        /\ restart => (pc \in {"jobmonitor", "poll"} /\ mjob = last.rep.jobid))

\* C4: when the stopping criterion says stop (job_restart reports False), the
\* Controller leaves the restart loop and stands at the conversion command.
C4_StopLeadsToConversion ==
  (/\ last.cmd = "job_restart"
   /\ Delivered
   /\ last.rep.ret_bool = Str("False"))
    => (pc = "vtk_convert" /\ unhandled = "none")

\* C5: when qstat lists job j as Held, job_wait cancels j, submits a new job
\* and returns the wait time 1800 with the id of the new job, which is not j.
C5_HeldJobIsReplaced ==
  (last.jw.called /\ last.jw.q.rc = 0 /\ last.jw.q.st = "H")
    => (/\ last.jw.exc = "none"
        /\ last.jw.t_wait = IntV(1800)
        /\ last.jw.job_id \in cancelled
        /\ last.jw.newjobid = Len(jobs)
        /\ last.jw.newjobid # last.jw.job_id)

\* a monitor poll found the job Held
C5_Witness ==
  /\ last.cmd = "monitor"
  /\ last.jw.called
  /\ last.jw.q.st = "H"
  /\ last.jw.newjobid = 2
  /\ cancelled = {1}

\* C6: every monitor command carries the job id the remote side reported
\* last, also after a Held job was replaced under a new id.
C6_MonitorCarriesCurrentId ==
  pc = "poll" => mjob = reported

\* C7: a transport failure anywhere in execute_remote_command reaches the
\* Controller as a paramiko error and ends the process through sys.exit(1);
\* the command is not issued again.
C7_TransportFailureExits ==
  (last.cmd # "none" /\ last.tf # "none")
    => (IsA(last.raised, "SSHException") /\ pc = "exit1")

\* C8: whichever way execute_remote_command ends, no SSH session stays open.
C8_SessionClosed ==
  last.cmd # "none" => ~ssh_open

\* C9: an exception tag decoded from any phase never ends the Controller
\* with an unhandled exception.
C9_TagNeverCrashes ==
  (last.cmd # "none" /\ Delivered /\ last.rep.tag # None)
    => pc # "crashed"

\* C10: a qstat status other than Q, H or R reaches the Controller as an
\* error; monitoring does not end silently as if the job had finished.
C10_UnknownStatusIsError ==
  (/\ last.cmd # "none"
   /\ Delivered
   /\ last.jw.called
   /\ last.jw.q.rc = 0
   /\ last.jw.q.st \notin {"Q", "H", "R", ""})
    => (/\ last.raised # "none"
        /\ ~(pc = "jobmonitor" /\ m_t_wait = 0)
        /\ pc \notin {"job_restart", "vtk_convert", "scp_download", "returned"})

\* the tags the remote standard output carries after an exception marker
TagsIn(out) ==
  {out[i + 1].s : i \in {j \in 1..(Len(out) - 1) : out[j] = Str("====EXCEPTION====")}}

\* C13: when the output holds an exception marker whose tag is neither
\* RuntimeError nor ValueError, execute_remote_command raises the
\* protocol error (NameError), which is neither the 'job finished' nor the
\* 'value error' kind, and returns no result.
C13_UnknownTagIsProtocolError ==
  (/\ last.cmd # "none"
   /\ Delivered
   /\ TagsIn(last.out) \ {"RuntimeError", "ValueError"} # {})
    => last.raised = "NameError"

\* C14: whenever the output holds an exception tag, execute_remote_command
\* raises the error of that tag, and no success field of the same output is
\* stored by the Controller.
C14_TagTakesPrecedence ==
  [][(/\ pc \in {"submit", "poll", "job_restart"}
      /\ last'.ran /\ last'.tf = "none"
      /\ TagsIn(last'.out) # {})
       => (/\ \E tag \in TagsIn(last'.out) :
                last'.raised = (CASE tag = "RuntimeError" -> "RuntimeError"
                                  [] tag = "ValueError" -> "ValueError"
                                  [] OTHER -> "NameError")
           /\ jobid' = jobid /\ t_wait' = t_wait /\ status' = status
           /\ \/ m_t_wait' = m_t_wait /\ m_status' = m_status
              \/ m_t_wait' = t_wait /\ m_status' = status
              \/ last'.raised = "RuntimeError")]_vars

\* C16: whenever monitor obtains the verdict 'D', the same invocation calls
\* qdel on the job id it monitors and prints the ConvergenceError tag.
C16_DivergingCancelsAndTags ==
  (last.cmd = "monitor" /\ last.ran /\ last.rep.chk = "D")
    => (/\ last.arg.n \in last.qdel
        /\ last.arg.n \in cancelled
        /\ "ConvergenceError" \in TagsIn(last.out))

\* a poll found job 1 Running and its log Diverging
C16_Witness ==
  /\ last.cmd = "monitor"
  /\ last.ran
  /\ last.rep.chk = "D"
  /\ last.arg = IntV(1)
  /\ cancelled = {1}

\* C18: when check_convergence returns 'FNF' or 'NR', monitor prints no
\* exception tag and cancels no job, and jobmonitor goes on polling with the
\* wait time and status that monitor reported.
C18_NotReadyKeepsPolling ==
  (last.cmd = "monitor" /\ Delivered /\ last.rep.chk \in {"FNF", "NR"})
    => (/\ TagsIn(last.out) = {}
        /\ last.qdel = {}
        /\ pc \in {"jobmonitor", "poll"}
        /\ m_t_wait = last.rep.t_wait.n
        /\ m_status = last.rep.status)

\* C20: when the console log does not exist, job_restart prints the
\* FileNotFoundError tag, and the Controller takes no stop decision: restart
\* stays True and it does not go on to the conversion command.
C20_MissingConsoleIsNotStop ==
  (last.cmd = "job_restart" /\ Delivered /\ last.rep.console = "absent")
    => (/\ "FileNotFoundError" \in TagsIn(last.out)
        /\ restart
        /\ pc \notin {"vtk_convert", "scp_download", "returned"})

\* the restart command found no console log
C20_Witness ==
  /\ last.cmd = "job_restart"
  /\ Delivered
  /\ last.rep.console = "absent"
  /\ last.raised = "NameError"
  /\ pc = "crashed"

\* C23: every wait time a remote phase emits and every wait time the
\* Controller holds (localrun's t_wait, jobmonitor's t_wait) is >= 0, whatever
\* status line qstat answered with.
C23_WaitTimesNonNegative ==
  /\ (last.rep.t_wait # None => last.rep.t_wait.n >= 0)
  /\ t_wait >= 0
  /\ m_t_wait >= 0

\* C24: after a submit or a poll whose qstat answer was Running with
\* requested wall-clock W and elapsed wall-clock E (minutes), the wait time
\* the Controller holds is (W - E) * 60 + 60 seconds; after an answer of
\* Queued it is 3600.
C24_HeldWaitIsSchedulerDerived ==
  (/\ last.cmd \in {"run", "monitor"}
   /\ Delivered
   /\ last.rep.tag = None
   /\ last.jw.called
   /\ last.jw.q.rc = 0)
    => LET held == IF last.cmd = "run" THEN t_wait ELSE m_t_wait
       IN /\ last.jw.q.st = "R"
               => held = (last.jw.q.wall - last.jw.q.elap) * 60 + 60
          /\ last.jw.q.st = "Q" => held = 3600

\* C25: when the output of the submit command carries an exception tag, the
\* run ends there: localrun is left, no monitor, job_restart or vtk_convert
\* command follows and nothing is staged.
C25_TaggedSubmitEndsRun ==
  (/\ last.cmd = "run"
   /\ Delivered
   /\ TagsIn(last.out) # {})
    => (/\ pc = "crashed"
        /\ unhandled \in {"ValueError", "NameError"}
        /\ saved = NoSaved)

C25_Witness ==
  /\ last.cmd = "run"
  /\ Delivered
  /\ TagsIn(last.out) = {"JobStatError"}
  /\ last.jw.called
  /\ pc = "crashed"

\* C26: when jobmonitor catches a ValueError or NameError of a poll, or
\* localrun catches a ValueError of job_restart, the run goes on with wait
\* time 0 or is ended; it does not go on with the previous positive wait time.
C26_CaughtErrorStopsWaiting ==
  [][(\/ pc = "poll" /\ last'.raised \in {"ValueError", "NameError"}
      \/ pc = "job_restart" /\ last'.raised = "ValueError")
       => (\/ pc' \in {"crashed", "exit1"}
           \/ m_t_wait' = 0)]_vars

C34_CancelOnlyHeldOrDiverging ==
  \A id \in last.qdel :
    /\ last.jw.called
    /\ last.jw.q.rc = 0
    /\ id = last.jw.job_id
    /\ \/ last.jw.q.st = "H"
       \/ /\ last.cmd = "monitor"
          /\ last.jw.q.st = "R"
          /\ pset.check
          /\ last.rep.chk = "D"

\* a poll that found job 1 Running and Diverging cancelled it
C34_Witness ==
  /\ last.cmd = "monitor"
  /\ last.jw.q.st = "R"
  /\ pset.check
  /\ last.rep.chk = "D"
  /\ last.jw.job_id = 1
  /\ last.qdel = {1}

C32_HeldJobResubmittedInKind ==
  (/\ last.ran
   /\ last.jw.called
   /\ last.jw.q.rc = 0
   /\ last.jw.q.st = "H"
   /\ last.jw.exc = "none")
    => jobs[last.jw.newjobid] = jobs[last.jw.job_id]

(***************************************************************************)
(* Properties of search, checked under SearchSpec.  The marker vocabulary  *)
(* of each mode is written out here as the wire format states it.          *)
(***************************************************************************)
ActiveMarkers(mode) ==
  CASE mode = 0 -> {"====JOB_IDS====", "====WAIT_TIME====", "====JOB_STATUS====",
                    "====EXCEPTION===="}
    [] mode = 1 -> {"====WAIT_TIME====", "====JOB_STATUS====", "====EXCEPTION===="}
    [] mode = 2 -> {"====JOB_IDS====", "====WAIT_TIME====", "====JOB_STATUS====",
                    "====RESTART====", "====EXCEPTION===="}

FieldOfMarker(m) ==
  CASE m = "====JOB_IDS====" -> "jobid"
    [] m = "====WAIT_TIME====" -> "t_wait"
    [] m = "====JOB_STATUS====" -> "status"
    [] m = "====RESTART====" -> "ret_bool"
    [] m = "====EXCEPTION====" -> "exception"

\* the positions of out_lines that hold a marker of the active mode
ActiveAt(out_lines, mode) ==
  {i \in 1..Len(out_lines) :
     out_lines[i].k = "str" /\ out_lines[i].s \in ActiveMarkers(mode)}

\* C11: for every line sequence without a marker line of the active mode, in
\* every search mode, search returns the empty field map and raises nothing.
C11_NoMarkerNoField ==
  (fn.op = "search" /\ fn.done /\ ActiveAt(fn.out_lines, fn.mode) = {})
    => (fn.results.err = "none" /\ DOMAIN fn.results.res = {})

\* a poll output that holds only markers of other modes decodes to nothing
C11_Witness ==
  /\ fn.op = "search"
  /\ fn.done
  /\ fn.mode = 1
  /\ fn.out_lines = <<Str("====JOB_IDS===="), IntV(3600), Str("====RETURN_BOOL====")>>
  /\ fn.results.err = "none"
  /\ DOMAIN fn.results.res = {}

\* C12: search recognises exactly the markers of the active mode: each
\* marker of the mode that occurs yields its field, taken from the line after
\* an occurrence, and a marker line outside the active subset yields no field.
C12_OnlyActiveMarkers ==
  (fn.op = "search" /\ fn.done /\ fn.results.err = "none")
    => LET at == ActiveAt(fn.out_lines, fn.mode)
           res == fn.results.res
       IN /\ DOMAIN res = {FieldOfMarker(fn.out_lines[i].s) : i \in at}
          /\ \A f \in DOMAIN res :
               \E i \in at : /\ i < Len(fn.out_lines)
                             /\ FieldOfMarker(fn.out_lines[i].s) = f
                             /\ res[f] = fn.out_lines[i + 1]

\* a poll output with a job-id marker in front of the wait-time pair: only
\* the wait time is decoded
C12_Witness ==
  /\ fn.op = "search"
  /\ fn.done
  /\ fn.mode = 1
  /\ fn.out_lines = <<Str("====JOB_IDS===="), Str("====WAIT_TIME===="), IntV(3600)>>
  /\ DOMAIN fn.results.res = {"t_wait"}
  /\ fn.results.res["t_wait"] = IntV(3600)

\* C31: for every line sequence and every search mode search raises nothing
\* and returns a field map; a marker of the mode on the final line, which
\* has no value line after it, leaves its field absent unless an earlier
\* occurrence of the marker supplied it.
C31_SearchNeverRaises ==
  (fn.op = "search" /\ fn.done)
    => LET n == Len(fn.out_lines)
           at == ActiveAt(fn.out_lines, fn.mode)
       IN /\ fn.results.err = "none"
          /\ (/\ n \in at
              /\ \A i \in at \ {n} :
                   FieldOfMarker(fn.out_lines[i].s) # FieldOfMarker(fn.out_lines[n].s))
               => FieldOfMarker(fn.out_lines[n].s) \notin DOMAIN fn.results.res

(***************************************************************************)
(* Properties of check_convergence, checked under ConvSpec.                *)
(***************************************************************************)
\* the length of the run of samples below 0.1 in magnitude that ends the
\* sequence
FinalStreak(samples) ==
  LET n == Len(samples)
      runs == {k \in 0..n : \A i \in (n - k + 1)..n :
                              samples[i] > -100 /\ samples[i] < 100}
  IN CHOOSE k \in runs : \A h \in runs : h <= k

\* a signal is stable iff its final streak reaches 90% of its length
SignalStable(samples) == FinalStreak(samples) >= (9 * Len(samples)) \div 10

\* C15: on a log of at least 2000 rows check_convergence returns 'D' exactly
\* when a time-step flag is set and neither the divergence signal nor the
\* energy signal is stable, and 'C' in every other combination.
C15_DivergingIffAllThree ==
  (/\ fn.op = "check_convergence"
   /\ fn.chk_status # "none"
   /\ fn.log.exists
   /\ fn.log.rows >= 2000)
    => LET all3 == /\ fn.log.CFL_check \/ fn.log.dt_check
                   /\ ~SignalStable(fn.log.relchg_div)
                   /\ ~SignalStable(fn.log.relchg_ke)
       IN fn.chk_status = IF all3 THEN "D" ELSE "C"

\* a log with a time-step flag and an unstable divergence signal whose
\* energy signal is stable is judged Converging
C15_Witness ==
  /\ fn.op = "check_convergence"
  /\ fn.log.rows = 2000
  /\ fn.log.dt_check
  /\ fn.log.relchg_div = <<50, 50, -100>>
  /\ fn.log.relchg_ke = <<-100, 50, 50>>
  /\ fn.chk_status = "C"

\* C17: once a call has returned 'C' or 'D' for an existing log, no call
\* after any number of appends to that log returns 'NR'.
C17_NeverBackToNotReady ==
  (fn.op = "check_convergence" /\ fn.judged_at >= 0) => fn.chk_status # "NR"

\* a log judged at 2000 rows is judged again after 1000 more were appended
C17_Witness ==
  /\ fn.op = "check_convergence"
  /\ fn.judged_at = 2000
  /\ fn.log.rows = 3000
  /\ fn.chk_status \in {"C", "D"}

\* the counter after the samples: one more than after the samples before the
\* last when the last is below 0.1 in magnitude, otherwise zero
RECURSIVE Streak(_)
Streak(samples) ==
  IF samples = <<>>
    THEN 0
    ELSE LET x == samples[Len(samples)]
         IN IF -100 < x /\ x < 100
              THEN Streak(SubSeq(samples, 1, Len(samples) - 1)) + 1
              ELSE 0

\* C27: for each of the two signals the counter check_convergence ends with
\* is the one that was incremented on every sample below the threshold and
\* reset on every other, and the signal counts as stable iff that counter is
\* at least int(0.9 * n) for its n samples, the empty signal included: with
\* a time-step flag set the verdict is 'D' exactly when neither is stable.
C27_StreakDecidesStability ==
  (/\ fn.op = "check_convergence"
   /\ fn.chk_status \in {"C", "D"})
    => LET div == fn.log.relchg_div
           ke == fn.log.relchg_ke
           bar(samples) == (9 * Len(samples)) \div 10
       IN /\ fn.stable_count_div = Streak(div)
          /\ fn.stable_count_ke = Streak(ke)
          /\ (fn.log.CFL_check \/ fn.log.dt_check)
               => (fn.chk_status = "C"
                     <=> (\/ fn.stable_count_div >= bar(div)
                          \/ fn.stable_count_ke >= bar(ke)))

\* the divergence signal's streak of two after a reset reaches the bar of
\* int(2.7) = 2 and makes the verdict 'C'; the other signal's final sample
\* resets its counter
C27_Witness ==
  /\ fn.op = "check_convergence"
  /\ fn.log.dt_check
  /\ fn.log.relchg_div = <<-100, 50, 50>>
  /\ fn.log.relchg_ke = <<50, 50, -100>>
  /\ fn.stable_count_div = 2
  /\ fn.stable_count_ke = 0
  /\ fn.chk_status = "C"

\* an empty signal is stable: counter 0, bar int(0) = 0
C27_WitnessEmpty ==
  /\ fn.op = "check_convergence"
  /\ fn.log.dt_check
  /\ fn.log.relchg_div = <<>>
  /\ fn.log.relchg_ke = <<-100>>
  /\ fn.stable_count_div = 0
  /\ fn.chk_status = "C"

(***************************************************************************)
(* Properties of job_restart, checked under RestartSpec.                   *)
(***************************************************************************)
\* the console log's last 'writing restart file' line carries index k
LastCheckpoint(out_file, k) ==
  \E i \in 1..Len(out_file) :
    /\ out_file[i].pat
    /\ out_file[i].num = k
    /\ \A j \in (i + 1)..Len(out_file) : ~out_file[j].pat

\* C19: when the stopping criterion says continue and the last 'writing
\* restart file' line of the console log carries index k, job_restart leaves
\* the restart line with flag TRUE and input_file_index = k, whatever the
\* log holds before that line and whatever the restart line was.
C19_RestartLineRewritten ==
  (fn.op = "job_restart" /\ fn.done /\ fn.outExists /\ fn.crit = "True")
    => \A k \in 0..MaxIndex :
         LastCheckpoint(fn.out_file, k)
           => fn.lines384 = [flag |-> "TRUE", index |-> k]

\* two checkpoints were written and the script had index 0: index 1 is set
C19_Witness ==
  /\ fn.op = "job_restart"
  /\ fn.done
  /\ fn.crit = "True"
  /\ fn.out_file = <<[pat |-> TRUE, num |-> 0], [pat |-> TRUE, num |-> 1]>>
  /\ fn.restart_line = [flag |-> "FALSE", index |-> 0]
  /\ fn.lines384 = [flag |-> "TRUE", index |-> 1]

\* C21: for a geometry case without csv log stop_crit answers None, neither
\* True nor False, and job_restart then submits nothing and does not report
\* a run that reached its end.
C21_GeomWithoutLogIsIndeterminate ==
  (/\ fn.op = "job_restart" /\ fn.done /\ fn.outExists
   /\ fn.case = "geom" /\ ~fn.csvExists)
    => (/\ fn.crit = "None"
        /\ fn.subs = <<>>
        /\ fn.lines384 = fn.restart_line
        /\ \A i \in 1..Len(fn.out) :
             fn.out[i] \notin {Str("====RETURN_BOOL===="), Str("====RESTART====")})

\* a geometry case whose console log holds a checkpoint line but whose csv
\* is missing: the FileNotFoundError tag is all that is printed
C21_Witness ==
  /\ fn.op = "job_restart"
  /\ fn.done
  /\ fn.case = "geom"
  /\ ~fn.csvExists
  /\ fn.out_file = <<[pat |-> TRUE, num |-> 1]>>
  /\ fn.crit = "None"
  /\ fn.out = <<Str("====EXCEPTION===="), Str("FileNotFoundError"), Txt>>

\* C28: for a surfactant case stop_crit answers True (keep running) exactly
\* when the simulated time of the highest-numbered snapshot, 5e-3 s per
\* snapshot, is below the horizon of 0.3 s and, if the csv log is there, the
\* last interface position is below 90% of the domain length as well.
C28_SurfContinueIffBelowAndEarly ==
  (/\ fn.op = "job_restart" /\ fn.done /\ fn.outExists
   /\ fn.case = "surf")
    => LET early == /\ fn.VAR_file_list # {}
                    /\ \A n \in fn.VAR_file_list : 5 * n < 300
       IN fn.crit = "True"
            <=> IF fn.csvExists THEN fn.below /\ early ELSE early

\* a surfactant case with the interface still below the limit whose newest
\* snapshot, number 60, is at the horizon: stop
C28_Witness ==
  /\ fn.op = "job_restart"
  /\ fn.done
  /\ fn.outExists
  /\ fn.case = "surf"
  /\ fn.csvExists
  /\ fn.below
  /\ fn.VAR_file_list = {59, 60}
  /\ fn.crit = "False"

(***************************************************************************)
(* Properties of execute_remote_command, checked under ExecSpec.           *)
(***************************************************************************)
\* the output without its i-th line
WithoutLine(lines, i) ==
  [j \in 1..(Len(lines) - 1) |-> IF j < i THEN lines[j] ELSE lines[j + 1]]

\* line i is neither a marker of the mode nor the value line after one
PlainLine(lines, mode, i) ==
  /\ ~IsMarkerLine(strip(lines[i]), mode)
  /\ i > 1 => ~IsMarkerLine(strip(lines[i - 1]), mode)

\* C29: when the whole output was read, every line that is not a marker is
\* in the log as it arrived, character for character and in its place, and
\* a line that is neither a marker nor a marker's value does not change what
\* is decoded: without it the call raises and returns the same.
C29_PlainLinesLoggedVerbatim ==
  (/\ fn.op = "execute_remote_command"
   /\ fn.done
   /\ fn.tf = "none")
    => /\ Len(fn.log) = Len(fn.stdout)
       /\ \A i \in 1..Len(fn.stdout) :
            ~IsMarkerLine(strip(fn.stdout[i]), fn.mode)
              => fn.log[i] = fn.stdout[i]
       /\ \A i \in 1..Len(fn.stdout) :
            PlainLine(fn.stdout, fn.mode, i)
              => LET rest == WithoutLine(fn.stdout, i)
                     r == execute_remote_command(
                            [j \in 1..Len(rest) |-> strip(rest[j])], fn.mode, "none")
                 IN r.raised = fn.raised /\ r.t_wait = fn.t_wait

(***************************************************************************)
(* Properties of scp_download, checked under ScpSpec.                      *)
(***************************************************************************)
\* S_ISREG: the file type in bits 12-15 of st_mode is that of a regular file
IsRegular(st_mode) == (st_mode \div 4096) % 16 = 8

\* C30: a call that ends without exception copied exactly the entries of
\* the listing whose mode is that of a regular file, no directory, symbolic
\* link, socket, pipe or device; and with the connection and the listing in
\* order the call ends without exception whether or not the local directory
\* was there before.
C30_CopiesExactlyRegularFiles ==
  (fn.op = "scp_download" /\ fn.done)
    => /\ fn.tf = "none" => fn.raised = "none"
       /\ fn.raised = "none"
            => fn.copied = {i \in 1..Len(fn.remote_files) :
                              IsRegular(fn.remote_files[i])}

====
